---- MODULE Spec2Model ----
(***************************************************************************)
(* A model of two chipset devices of the repository:                       *)
(*   - the fw_cfg firmware configuration device                            *)
(*     (vm/devices/firmware/fw_cfg/src/lib.rs, spec.rs), and               *)
(*   - the PS/2 mouse (vm/devices/chipset/src/i8042/ps2mouse.rs).          *)
(* Bytes are naturals 0..255, byte strings are sequences of bytes.         *)
(* 32-bit registers that can exceed the checker's integer range are kept   *)
(* as their four big-endian bytes.                                         *)
(***************************************************************************)
EXTENDS Integers, Sequences, FiniteSets, TLC

VARIABLES
    \* ---- fw_cfg: static configuration (FwCfg fields, lib.rs 84-92)
    register_layout,      \* [kind |-> "IoPort" | "Mmio", base |-> Nat]
    files,                \* Vec<(String, FwCfgFile)>: <<[name, data], ...>>
    ram,                  \* the RAM ranges of the guest memory behind `gm`
    \* ---- fw_cfg: runtime book-keeping and volatile state (lib.rs 94-102)
    buf,
    buf_valid,
    selector,
    data_offset,
    dma_lo,               \* u32, as its 4 big-endian bytes
    dma_hi,               \* u32, as its 4 big-endian bytes
    fw_panicked,          \* the handler hit todo!() (lib.rs 299)
    \* ---- fw_cfg: observation of the run (not device state)
    fw_last,              \* the last register access, the cursor (start) and selector
                          \* (sel) it found, and what it returned
    fw_acc,               \* bytes copied by data reads since the last accepted selector write
    fw_wdata,             \* the bytes the last access wrote (none for a read)
    fw_addr,              \* the address of the last access (NoAddress if it had none)
    fw_saved,             \* whether save() was called, and the device's fields when it
                          \* last was
    fw_dma,               \* the descriptor fetch of the last access, if it made one
    fw_filled,            \* the selector read_data last built buf for; NoSelector when
                          \* buf was never built or was cleared and left empty
    \* ---- PS/2 mouse: MouseState (ps2mouse.rs 70-79)
    previous_command,     \* Option<Ps2MouseCommand>: NoCommand or a byte
    output_buffer,
    active,
    last_output_byte_read,
    prev_x,
    prev_y,
    \* ---- PS/2 mouse: observation of the run (not device state)
    m_saved,              \* the SavedState returned by the last save(), if any, and
                          \* the MouseState it was taken from
    m_last,               \* the last operation, with the state it started from
    m_returned,           \* the byte the last successful output() returned, if any, and
                          \* whether reset() was called since
    m_tags,               \* for each queued byte, what queued it: "header", "dx", "dy"
                          \* (a motion packet), "response" (a command) or "restored"
    m_nops,               \* operations performed so far that count against the bound
    \* ---- PS/2 mouse: a call of poll in progress, and its input source
    poll_pc,              \* "idle", or "loop" while a call of poll is in its loop
    poll_source,          \* how many events the source has ready, or AlwaysReady
    poll_pos              \* the source's position in its stream of events, modulo 2

fw_vars == <<register_layout, files, ram, buf, buf_valid, selector, data_offset,
             dma_lo, dma_hi, fw_panicked, fw_last, fw_acc, fw_filled, fw_dma,
             fw_wdata, fw_addr, fw_saved>>
mouse_vars == <<previous_command, output_buffer, active, last_output_byte_read,
                prev_x, prev_y, m_saved, m_last, m_returned, m_tags, m_nops,
                poll_pc, poll_source, poll_pos>>
vars == <<fw_vars, mouse_vars>>

(***************************************************************************)
(* Bounds of the model.                                                    *)
(***************************************************************************)
MaxRamRanges == 2
MaxOps == 4
MaxFillOps == 2
MaxEvents == 2
MaxPacketOps == 3
MaxLoopOps == 3

(***************************************************************************)
(* Byte-level helpers.                                                     *)
(***************************************************************************)
Min(a, b) == IF a <= b THEN a ELSE b

\* n zero bytes
Zeros(n) == [i \in 1..n |-> 0]

\* the first n elements of s
Take(s, n) == SubSeq(s, 1, Min(n, Len(s)))

\* little-endian bytes of v, n of them (v mod 256^n)
RECURSIVE LeBytes(_, _)
LeBytes(v, n) == IF n = 0 THEN <<>> ELSE <<v % 256>> \o LeBytes(v \div 256, n - 1)

\* big-endian bytes of v, n of them (v mod 256^n)
RECURSIVE BeBytes(_, _)
BeBytes(v, n) == IF n = 0 THEN <<>> ELSE BeBytes(v \div 256, n - 1) \o <<v % 256>>

\* a from_le_bytes that takes the first byte as the high one
from_le_bytes_high_first(d) == 256 * d[1] + d[2]

\* u16::from_le_bytes / u16::from_be_bytes
from_le_bytes(d) == d[1] + 256 * d[2]
from_be_bytes(d) == 256 * d[1] + d[2]

RECURSIVE FlattenSeq(_)
FlattenSeq(ss) == IF Len(ss) = 0 THEN <<>> ELSE Head(ss) \o FlattenSeq(Tail(ss))

(***************************************************************************)
(* fw_cfg: constants of spec.rs and the register maps of lib.rs.           *)
(***************************************************************************)
SIGNATURE == 0
ID == 1
FILE_DIR == 25
BASE_FILE == 32
BASE_ARCH_LOCAL == 32768
U16_MAX == 65535

\* no selector at all (the buffer was never rebuilt)
NoSelector == -1

\* no address at all (the last operation was not a register access)
NoAddress == -1

PIO_SELECTOR == 1296
PIO_DATA == 1297
PIO_DMA_HI == 1300
PIO_DMA_LO == 1304

MMIO_DATA == 0
MMIO_SELECTOR == 8
MMIO_DMA_HI == 16
MMIO_DMA_LO == 20

\* the MMIO base address the device is configured with (FwCfgRegisterLayout::Mmio)
MmioBase == 4096

\* open_enum PioRegisters: the register an I/O port names
PioRegisters(addr) ==
    IF addr = PIO_SELECTOR THEN "SELECTOR"
    ELSE IF addr = PIO_DATA THEN "DATA"
    ELSE IF addr = PIO_DMA_HI THEN "DMA_HI"
    ELSE IF addr = PIO_DMA_LO THEN "DMA_LO"
    ELSE "OTHER"

\* open_enum MmioRegister: the register an offset from the base names
MmioRegister(off) ==
    IF off = MMIO_DATA THEN "DATA"
    ELSE IF off = MMIO_SELECTOR THEN "SELECTOR"
    ELSE IF off = MMIO_DMA_HI THEN "DMA_HI"
    ELSE IF off = MMIO_DMA_LO THEN "DMA_LO"
    ELSE "OTHER"

\* b"QEMU"
SignatureBytes == <<81, 69, 77, 85>>

\* IdBitmap::new().with_trad(true).with_dma(false).into_bits().as_bytes():
\* bit 0 = trad, bit 1 = dma, a native (little-endian) u32
IdBitmapBytes == LeBytes(1 + 2 * 0, 4)

\* "etc/e820" and "etc/show-boot-menu" in ASCII
NameE820 == <<101, 116, 99, 47, 101, 56, 50, 48>>
NameShowBootMenu ==
    <<101, 116, 99, 47, 115, 104, 111, 119, 45, 98, 111, 111, 116, 45, 109, 101, 110, 117>>

\* the i-th RAM range of a memory layout (MemoryLayout::ram)
RamRange(i) ==
    IF i = 1 THEN [start |-> 0, len |-> 655360]
    ELSE [start |-> (i - 1) * 1048576, len |-> 1048576]

\* the memory layouts a VM is built with: 1..MaxRamRanges RAM ranges
MemLayouts == { [i \in 1..k |-> RamRange(i)] : k \in 1..MaxRamRanges }

\* gen_e820: one packed E820Reservation {address: u64, length: u64, ty: u32 = Ram}
\* per RAM range, in native (little-endian) byte order
gen_e820(mem_layout) ==
    FlattenSeq([i \in 1..Len(mem_layout) |->
        LeBytes(mem_layout[i].start, 8) \o LeBytes(mem_layout[i].len, 8) \o LeBytes(1, 4)])

is_ascii(name) == \A i \in 1..Len(name) : name[i] < 128

\* a FileDirFile whose select field is little-endian
FileDirFileSelectLe(size, select, name) ==
    BeBytes(size, 4) \o LeBytes(select % 65536, 2) \o BeBytes(0, 2)
        \o name \o Zeros(56 - Len(name))

\* a FileDirFile whose size field is little-endian
FileDirFileSizeLe(size, select, name) ==
    LeBytes(size, 4) \o BeBytes(select % 65536, 2) \o BeBytes(0, 2)
        \o name \o Zeros(56 - Len(name))

\* spec::FileDirFile {size: u32_be, select: u16_be, reserved: u16_be, name: [u8; 56]}
FileDirFile(size, select, name) ==
    BeBytes(size, 4) \o BeBytes(select % 65536, 2) \o BeBytes(0, 2)
        \o name \o Zeros(56 - Len(name))

\* gen_file_dir's loop from the file at index idx (0-based) on: the bytes appended
\* to the buffer, and whether an Err was returned on the way
RECURSIVE gen_file_dir_loop(_, _)
gen_file_dir_loop(fs, idx) ==
    IF idx >= Len(fs) THEN [ok |-> TRUE, bytes |-> <<>>]
    ELSE LET name == fs[idx + 1].name
             size == Len(fs[idx + 1].data)
         IN  IF ~is_ascii(name) \/ Len(name) > 55 \/ size \div 65536 > 65535
             THEN [ok |-> FALSE, bytes |-> <<>>]
             ELSE LET rest == gen_file_dir_loop(fs, idx + 1)
                  IN  [ok |-> rest.ok,
                       bytes |-> FileDirFile(size, BASE_FILE + idx, name) \o rest.bytes]

\* gen_file_dir: FileDirFiles {count: u32_be} followed by one FileDirFile per file
gen_file_dir(fs) ==
    LET body == gen_file_dir_loop(fs, 0)
    IN  [ok |-> body.ok, bytes |-> BeBytes(Len(fs), 4) \o body.bytes]

\* FwCfg::new: the file table
NewFiles(mem_layout) ==
    << [name |-> NameE820, data |-> gen_e820(mem_layout)],
       [name |-> NameShowBootMenu, data |-> <<1>>] >>

\* the static regions the device claims (FwCfg::new, get_static_regions)
PioClaimed(addr) ==
    \/ PIO_SELECTOR <= addr /\ addr <= PIO_DATA
    \/ PIO_DMA_HI <= addr /\ addr <= PIO_DMA_HI + 7

MmioClaimed(off) ==
    \/ MMIO_SELECTOR <= off /\ off <= MMIO_SELECTOR + 1
    \/ MMIO_DATA <= off /\ off <= MMIO_DATA + 7
    \/ MMIO_DMA_HI <= off /\ off <= MMIO_DMA_HI + 7

(***************************************************************************)
(* fw_cfg: guest memory and the DMA address.                               *)
(***************************************************************************)
\* bitwise or of two naturals
RECURSIVE BitOr(_, _)
BitOr(a, b) ==
    IF a = 0 THEN b
    ELSE IF b = 0 THEN a
    ELSE (IF a % 2 = 1 \/ b % 2 = 1 THEN 1 ELSE 0) + 2 * BitOr(a \div 2, b \div 2)

\* the hexadecimal digits of a byte string, most significant first
Nibbles(bytes) ==
    [i \in 1..(2 * Len(bytes)) |->
        IF i % 2 = 1 THEN bytes[(i + 1) \div 2] \div 16 ELSE bytes[i \div 2] % 16]

\* a u32 register latched from the first min(len, 4) bytes of a write, big-endian,
\* the missing bytes zero (write_dma_hi / write_dma_lo, lib.rs 252-257, 267-272)
LatchU32(val) == Take(val, 4) \o Zeros(4 - Min(Len(val), 4))

\* gpa = ((dma_hi as u64) << 4) | dma_lo as u64 (lib.rs 274), as 16 hex digits
DmaGpa(hi, lo) ==
    LET h == Zeros(7) \o Nibbles(hi) \o Zeros(1)
        l == Zeros(8) \o Nibbles(lo)
    IN  [i \in 1..16 |-> BitOr(h[i], l[i])]

\* the value of 16 hex digits when it fits 31 bits, else -1
RECURSIVE HexValue(_)
HexValue(ds) == IF Len(ds) = 0 THEN 0 ELSE 16 * HexValue(SubSeq(ds, 1, Len(ds) - 1)) + ds[Len(ds)]

GpaValue(gpa) ==
    IF (\A i \in 1..8 : gpa[i] = 0) /\ gpa[9] < 8 THEN HexValue(SubSeq(gpa, 9, 16)) ELSE -1

\* GuestMemory::read_plain::<DmaAccess>(gpa) returns Ok: the 16 bytes of the
\* descriptor lie in one RAM range
gm_read_ok(ranges, gpa) ==
    LET v == GpaValue(gpa)
    IN  v >= 0 /\ \E i \in 1..Len(ranges) :
            ranges[i].start <= v /\ v + 16 <= ranges[i].start + ranges[i].len

(***************************************************************************)
(* fw_cfg: the device's operations (impl FwCfg, lib.rs 119-301).           *)
(***************************************************************************)
\* the mutable fields FwCfg::new gives a device (lib.rs 160-172)
FwCfgFresh ==
    [buf |-> <<>>, buf_valid |-> FALSE, selector |-> U16_MAX, data_offset |-> 0,
     dma_lo |-> LeBytes(0, 4), dma_hi |-> LeBytes(0, 4), panicked |-> FALSE,
     fetched |-> FALSE, gpa |-> Zeros(16)]

\* FwCfg::new (lib.rs 121-174)
FwCfgNew(layout, mem_layout) ==
    /\ register_layout = layout
    /\ files = NewFiles(mem_layout)
    /\ ram = mem_layout
    /\ buf = <<>>
    /\ buf_valid = FALSE
    /\ selector = U16_MAX
    /\ data_offset = 0
    /\ dma_lo = LeBytes(0, 4)
    /\ dma_hi = LeBytes(0, 4)
    /\ fw_panicked = FALSE
    /\ fw_last = [op |-> "new", reg |-> "NONE", width |-> 0, res |-> "Ok",
                  out |-> <<>>, start |-> 0, sel |-> U16_MAX]
    /\ fw_acc = <<>>
    /\ fw_filled = NoSelector
    /\ fw_dma = [fetched |-> FALSE, gpa |-> Zeros(16), ok |-> FALSE]
    /\ fw_wdata = <<>>
    /\ fw_addr = NoAddress
    /\ fw_saved = [some |-> FALSE, from |-> FwCfgFresh]

\* a write_selector that resets the cursor only when the selector changes
write_selector_keep_cursor(data) ==
    [selector |-> data, data_offset |-> IF data = selector THEN data_offset ELSE 0,
     buf_valid |-> (data = selector)]

\* FwCfg::write_selector (lib.rs 176-187): the selector, cursor and buffer
\* validity after the write
write_selector(data) ==
    [selector |-> data, data_offset |-> 0, buf_valid |-> (data = selector)]

\* FwCfg::read_data, the rebuild of an invalid buffer (lib.rs 190-239):
\* the new buffer, and ok = FALSE where the code returns early with the
\* buffer left invalid
read_data_fill(sel) ==
    IF sel = SIGNATURE THEN [ok |-> TRUE, bytes |-> SignatureBytes]
    ELSE IF sel = ID THEN [ok |-> TRUE, bytes |-> IdBitmapBytes]
    ELSE IF sel = FILE_DIR THEN gen_file_dir(files)
    ELSE IF ~(BASE_FILE <= sel /\ sel < BASE_ARCH_LOCAL) THEN [ok |-> TRUE, bytes |-> <<>>]
    ELSE IF sel - BASE_FILE < Len(files)
         THEN [ok |-> TRUE, bytes |-> files[sel - BASE_FILE + 1].data]
         ELSE [ok |-> FALSE, bytes |-> <<>>]

\* a copy that advances the cursor by the slice's width
read_data_copy_by_width(b, off, width) ==
    LET buf_remaining == IF Len(b) >= off THEN Len(b) - off ELSE 0
        n == Min(buf_remaining, width)
    IN  [data_offset |-> off + width, out |-> SubSeq(b, off + 1, off + n)]

\* a copy that still moves the cursor when no byte remains
read_data_copy_past_end(b, off, width) ==
    LET buf_remaining == IF Len(b) >= off THEN Len(b) - off ELSE 0
        n == Min(buf_remaining, width)
    IN  IF buf_remaining = 0 THEN [data_offset |-> off + 1, out |-> <<>>]
        ELSE [data_offset |-> off + n, out |-> SubSeq(b, off + 1, off + n)]

\* FwCfg::read_data, the copy (lib.rs 241-248): from buffer b at cursor off into a
\* slice of `width` bytes
read_data_copy(b, off, width) ==
    LET buf_remaining == IF Len(b) >= off THEN Len(b) - off ELSE 0
        n == Min(buf_remaining, width)
    IN  [data_offset |-> off + n, out |-> SubSeq(b, off + 1, off + n)]

\* FwCfg::read_data (lib.rs 189-249) into a slice of `width` bytes: the buffer,
\* its validity and the cursor after the call, and the bytes copied
read_data(width) ==
    IF buf_valid
    THEN LET c == read_data_copy(buf, data_offset, width)
         IN  [buf |-> buf, buf_valid |-> TRUE, data_offset |-> c.data_offset, out |-> c.out]
    ELSE LET f == read_data_fill(selector)
         IN  IF ~f.ok
             THEN [buf |-> f.bytes, buf_valid |-> FALSE, data_offset |-> data_offset,
                   out |-> <<>>]
             ELSE LET c == read_data_copy(f.bytes, data_offset, width)
                  IN  [buf |-> f.bytes, buf_valid |-> TRUE,
                       data_offset |-> c.data_offset, out |-> c.out]

\* a write_dma_lo that rewinds the read cursor when the descriptor cannot be read
write_dma_lo_rewinding(hi, val) ==
    LET lo == LatchU32(val)
        gpa == DmaGpa(hi, lo)
    IN  IF gm_read_ok(ram, gpa)
        THEN [dma_hi |-> hi, dma_lo |-> lo, panicked |-> TRUE, fetched |-> TRUE, gpa |-> gpa]
        ELSE [dma_hi |-> hi, dma_lo |-> lo, panicked |-> FALSE, fetched |-> TRUE,
              gpa |-> gpa, data_offset |-> 0]

\* FwCfg::write_dma_lo (lib.rs 266-300) with dma_hi = hi: the latch, the address
\* the descriptor is fetched from, and whether the descriptor was read, after
\* which the code reaches todo!()
write_dma_lo(hi, val) ==
    LET lo == LatchU32(val)
        gpa == DmaGpa(hi, lo)
    IN  [dma_hi |-> hi, dma_lo |-> lo, panicked |-> gm_read_ok(ram, gpa),
         fetched |-> TRUE, gpa |-> gpa]

\* a write_dma_hi that only latches the high half, whatever the width
write_dma_hi_latch_only(val) ==
    [dma_hi |-> LatchU32(val), dma_lo |-> dma_lo, panicked |-> FALSE, fetched |-> FALSE,
     gpa |-> Zeros(16)]

\* FwCfg::write_dma_hi (lib.rs 251-264)
write_dma_hi(val) ==
    LET hi == LatchU32(val)
    IN  IF Len(val) = 8 THEN write_dma_lo(hi, SubSeq(val, 5, 8))
        ELSE [dma_hi |-> hi, dma_lo |-> dma_lo, panicked |-> FALSE, fetched |-> FALSE,
              gpa |-> Zeros(16)]

(***************************************************************************)
(* fw_cfg: the register handlers (MmioIntercept, PortIoIntercept,          *)
(* lib.rs 321-408).  Each handler is one step; fw_last records what the    *)
(* access was and what it returned, fw_acc what the data reads copied.     *)
(***************************************************************************)
\* the device's mutable fields as a record, with no descriptor fetched
FwState ==
    [buf |-> buf, buf_valid |-> buf_valid, selector |-> selector,
     data_offset |-> data_offset, dma_lo |-> dma_lo, dma_hi |-> dma_hi,
     panicked |-> fw_panicked, fetched |-> FALSE, gpa |-> Zeros(16)]

\* one register access that leaves the device in state st, returning res and
\* copying `out` into the caller's slice
FwAccess(op, reg, width, res, st, out) ==
    /\ buf' = st.buf
    /\ buf_valid' = st.buf_valid
    /\ selector' = st.selector
    /\ data_offset' = st.data_offset
    /\ dma_lo' = st.dma_lo
    /\ dma_hi' = st.dma_hi
    /\ fw_panicked' = st.panicked
    /\ fw_last' = [op |-> op, reg |-> reg, width |-> width,
                   res |-> IF st.panicked THEN "panic" ELSE res,
                   out |-> out, start |-> data_offset, sel |-> selector]
    /\ fw_acc' = IF op = "write" /\ reg = "SELECTOR" /\ res = "Ok" THEN <<>>
                 ELSE fw_acc \o out
    /\ fw_filled' = IF op = "read" /\ reg = "DATA" /\ ~buf_valid
                    THEN (IF st.buf_valid THEN selector ELSE NoSelector)
                    ELSE fw_filled
    /\ fw_dma' = [fetched |-> st.fetched, gpa |-> st.gpa, ok |-> st.fetched /\ st.panicked]
    /\ fw_saved' = IF op = "save" THEN [some |-> TRUE, from |-> FwState] ELSE fw_saved
    /\ UNCHANGED <<register_layout, files, ram>>
    /\ UNCHANGED mouse_vars

\* the access of a read of the data register with a slice of `width` bytes
FwReadData(width) ==
    LET r == read_data(width)
    IN  FwAccess("read", "DATA", width, "Ok",
                 [buf |-> r.buf, buf_valid |-> r.buf_valid,
                  data_offset |-> r.data_offset] @@ FwState, r.out)

\* MmioIntercept::mmio_read (lib.rs 322-332)
mmio_read(addr, width) ==
    /\ register_layout.kind = "Mmio"
    /\ ~fw_panicked
    /\ fw_wdata' = <<>>
    /\ fw_addr' = addr
    /\ LET reg == MmioRegister(addr - register_layout.base)
       IN  IF reg = "DATA" THEN FwReadData(width)
           ELSE FwAccess("read", reg, width, "InvalidRegister", FwState, <<>>)

\* an mmio_write that takes a selector write of any width, zero-extended
mmio_write_any_width(addr, data) ==
    /\ register_layout.kind = "Mmio"
    /\ ~fw_panicked
    /\ fw_wdata' = data
    /\ fw_addr' = addr
    /\ LET reg == MmioRegister(addr - register_layout.base)
           w == Len(data)
       IN  IF reg = "SELECTOR"
           THEN FwAccess("write", reg, w, "Ok",
                         write_selector(from_be_bytes(Take(data \o <<0, 0>>, 2))) @@ FwState,
                         <<>>)
           ELSE IF reg = "DATA" THEN FwAccess("write", reg, w, "Ok", FwState, <<>>)
           ELSE IF reg = "DMA_HI"
           THEN FwAccess("write", reg, w, "Ok", write_dma_hi(data) @@ FwState, <<>>)
           ELSE IF reg = "DMA_LO"
           THEN FwAccess("write", reg, w, "Ok", write_dma_lo(dma_hi, data) @@ FwState, <<>>)
           ELSE FwAccess("write", reg, w, "InvalidRegister", FwState, <<>>)

\* MmioIntercept::mmio_write (lib.rs 334-355)
mmio_write(addr, data) ==
    /\ register_layout.kind = "Mmio"
    /\ ~fw_panicked
    /\ fw_wdata' = data
    /\ fw_addr' = addr
    /\ LET reg == MmioRegister(addr - register_layout.base)
           w == Len(data)
       IN  IF reg = "SELECTOR"
           THEN IF w # 2
                THEN FwAccess("write", reg, w, "InvalidAccessSize", FwState, <<>>)
                ELSE FwAccess("write", reg, w, "Ok",
                              write_selector(from_be_bytes(data)) @@ FwState, <<>>)
           ELSE IF reg = "DATA" THEN FwAccess("write", reg, w, "Ok", FwState, <<>>)
           ELSE IF reg = "DMA_HI"
           THEN FwAccess("write", reg, w, "Ok", write_dma_hi(data) @@ FwState, <<>>)
           ELSE IF reg = "DMA_LO"
           THEN FwAccess("write", reg, w, "Ok", write_dma_lo(dma_hi, data) @@ FwState, <<>>)
           ELSE FwAccess("write", reg, w, "InvalidRegister", FwState, <<>>)

\* an io_read that serves every port from the data path
io_read_any_register(addr, width) ==
    /\ register_layout.kind = "IoPort"
    /\ ~fw_panicked
    /\ fw_wdata' = <<>>
    /\ fw_addr' = addr
    /\ FwReadData(width)

\* PortIoIntercept::io_read (lib.rs 367-377)
io_read(addr, width) ==
    /\ register_layout.kind = "IoPort"
    /\ ~fw_panicked
    /\ fw_wdata' = <<>>
    /\ fw_addr' = addr
    /\ LET reg == PioRegisters(addr)
       IN  IF reg = "DATA" THEN FwReadData(width)
           ELSE FwAccess("read", reg, width, "InvalidRegister", FwState, <<>>)

\* an io_write whose data-register arm rewinds the read cursor
io_write_data_rewinds(addr, data) ==
    /\ register_layout.kind = "IoPort"
    /\ ~fw_panicked
    /\ fw_wdata' = data
    /\ fw_addr' = addr
    /\ LET reg == PioRegisters(addr)
           w == Len(data)
       IN  IF reg = "SELECTOR"
           THEN IF w # 2
                THEN FwAccess("write", reg, w, "InvalidAccessSize", FwState, <<>>)
                ELSE FwAccess("write", reg, w, "Ok",
                              write_selector(from_le_bytes(data)) @@ FwState, <<>>)
           ELSE IF reg = "DATA"
           THEN FwAccess("write", reg, w, "Ok", [data_offset |-> 0] @@ FwState, <<>>)
           ELSE IF reg = "DMA_HI"
           THEN FwAccess("write", reg, w, "Ok", write_dma_hi(data) @@ FwState, <<>>)
           ELSE IF reg = "DMA_LO"
           THEN FwAccess("write", reg, w, "Ok", write_dma_lo(dma_hi, data) @@ FwState, <<>>)
           ELSE FwAccess("write", reg, w, "InvalidRegister", FwState, <<>>)

\* PortIoIntercept::io_write (lib.rs 379-399)
io_write(addr, data) ==
    /\ register_layout.kind = "IoPort"
    /\ ~fw_panicked
    /\ fw_wdata' = data
    /\ fw_addr' = addr
    /\ LET reg == PioRegisters(addr)
           w == Len(data)
       IN  IF reg = "SELECTOR"
           THEN IF w # 2
                THEN FwAccess("write", reg, w, "InvalidAccessSize", FwState, <<>>)
                ELSE FwAccess("write", reg, w, "Ok",
                              write_selector(from_le_bytes(data)) @@ FwState, <<>>)
           ELSE IF reg = "DATA" THEN FwAccess("write", reg, w, "Ok", FwState, <<>>)
           ELSE IF reg = "DMA_HI"
           THEN FwAccess("write", reg, w, "Ok", write_dma_hi(data) @@ FwState, <<>>)
           ELSE IF reg = "DMA_LO"
           THEN FwAccess("write", reg, w, "Ok", write_dma_lo(dma_hi, data) @@ FwState, <<>>)
           ELSE FwAccess("write", reg, w, "InvalidRegister", FwState, <<>>)

(***************************************************************************)
(* fw_cfg: the accesses the guest issues.                                  *)
(***************************************************************************)
Layouts == { [kind |-> "IoPort", base |-> 0], [kind |-> "Mmio", base |-> MmioBase] }

\* the selectors the guest asks for: the signature, the id, the directory, both
\* files, a file index with no file, a legacy selector, the first arch-local
\* selector, and 0xFFFF
GuestSelectors == { SIGNATURE, ID, FILE_DIR, BASE_FILE, BASE_FILE + 1, BASE_FILE + 2,
                    2, BASE_ARCH_LOCAL, U16_MAX }

\* two-byte selector writes: each of GuestSelectors in the layout's byte order
\* (little-endian on I/O ports, big-endian on MMIO), and the directory's in the
\* other byte order
SelectorData(layout) ==
    { (IF layout.kind = "IoPort" THEN LeBytes(s, 2) ELSE BeBytes(s, 2)) : s \in GuestSelectors }
        \cup { IF layout.kind = "IoPort" THEN BeBytes(FILE_DIR, 2) ELSE LeBytes(FILE_DIR, 2) }

\* what the guest writes to each register
WriteData(layout, reg) ==
    IF reg = "SELECTOR" THEN SelectorData(layout) \cup { <<25>> }
    ELSE IF reg = "DATA" THEN { <<7>> }
    ELSE IF reg = "DMA_HI"
    THEN { <<255, 255, 255, 255>>, <<0, 0, 0, 0, 0, 0, 16, 0>>,
           <<255, 255, 255, 255, 0, 0, 16, 0>> }
    ELSE IF reg = "DMA_LO" THEN { <<0, 0, 16, 0>> }
    ELSE { <<7>> }

PioWidths == { 1, 2, 4 }
MmioWidths == { 1, 2, 4, 8 }

\* the selector and data registers
PioDataPath == { PIO_SELECTOR, PIO_DATA }
MmioDataPath == { MMIO_SELECTOR, MMIO_DATA }

IoRead == \E width \in PioWidths : io_read(PIO_DATA, width)

IoWrite ==
    \E addr \in PioDataPath : \E data \in WriteData(register_layout, PioRegisters(addr)) :
        io_write(addr, data)

MmioRead == \E width \in MmioWidths : mmio_read(register_layout.base + MMIO_DATA, width)

MmioWrite ==
    \E off \in MmioDataPath : \E data \in WriteData(register_layout, MmioRegister(off)) :
        mmio_write(register_layout.base + off, data)

FwNext == IoRead \/ IoWrite \/ MmioRead \/ MmioWrite

(***************************************************************************)
(* fw_cfg: every access the chipset routes to the device: reads and writes *)
(* of every claimed address, DMA writes included, and the lifecycle reset. *)
(***************************************************************************)
\* ChangeDeviceState::reset (lib.rs 308): the body is empty
FwCfg_reset == FwState

\* the claimed I/O ports and MMIO offsets (get_static_regions)
ClaimedPio == { a \in PIO_SELECTOR..(PIO_DMA_HI + 7) : PioClaimed(a) }
ClaimedMmio == { o \in MMIO_DATA..(MMIO_DMA_HI + 7) : MmioClaimed(o) }

\* the selectors written in these runs: the signature and the one-byte file
DevSelectors == { SIGNATURE, BASE_FILE + 1 }

\* what the guest writes to each register: selectors in the layout's byte
\* order and selector writes of 1 and 4 bytes; DMA addresses inside RAM
\* (0x1000, 0x10), outside it, and a high half of 1
DevWriteData(layout, reg) ==
    IF reg = "SELECTOR"
    THEN { (IF layout.kind = "IoPort" THEN LeBytes(s, 2) ELSE BeBytes(s, 2)) : s \in DevSelectors }
            \cup { <<33>>, <<0, 33, 0, 0>> }
    ELSE IF reg = "DMA_HI"
    THEN { <<0, 0, 0, 1>>, <<0, 0, 0, 0, 0, 0, 16, 0>>, <<255, 255, 255, 255, 0, 0, 16, 0>> }
    ELSE IF reg = "DMA_LO" THEN { <<0, 0, 16, 0>>, <<0, 0, 0, 0>>, <<128>> }
    ELSE IF reg = "DATA" THEN { <<7>>, <<1, 2, 3, 4>> }
    ELSE { <<7>> }

DevWidths == { 1, 4 }

DevIoRead == \E addr \in ClaimedPio, width \in DevWidths : io_read(addr, width)

DevIoWrite ==
    \E addr \in ClaimedPio : \E data \in DevWriteData(register_layout, PioRegisters(addr)) :
        io_write(addr, data)

DevMmioRead ==
    \E off \in ClaimedMmio, width \in DevWidths : mmio_read(register_layout.base + off, width)

DevMmioWrite ==
    \E off \in ClaimedMmio : \E data \in DevWriteData(register_layout, MmioRegister(off)) :
        mmio_write(register_layout.base + off, data)

DevReset ==
    /\ ~fw_panicked
    /\ fw_wdata' = <<>>
    /\ fw_addr' = NoAddress
    /\ FwAccess("reset", "NONE", 0, "Ok", FwCfg_reset, <<>>)

FwDevNext == DevIoRead \/ DevIoWrite \/ DevMmioRead \/ DevMmioWrite \/ DevReset

(***************************************************************************)
(* fw_cfg: save and restore around selector writes, data reads and a DMA   *)
(* latch write; a restore is made on any device, a freshly constructed one *)
(* with the same configuration included.                                   *)
(***************************************************************************)
\* SaveRestore::save (lib.rs 434-436): NoSavedState, a value with no field
FwCfg_save == "NoSavedState"

\* SaveRestore::restore (lib.rs 438-440): the body assigns nothing
FwCfg_restore(state) == FwState

\* the selector writes, the data reads and the 4-byte DMA-high write of these runs
SaveIoWrite ==
    \/ \E s \in DevSelectors : io_write(PIO_SELECTOR, LeBytes(s, 2))
    \/ io_write(PIO_DMA_HI, <<0, 0, 0, 1>>)

SaveIoRead == \E width \in DevWidths : io_read(PIO_DATA, width)

SaveMmioWrite ==
    \/ \E s \in DevSelectors : mmio_write(register_layout.base + MMIO_SELECTOR, BeBytes(s, 2))
    \/ mmio_write(register_layout.base + MMIO_DMA_HI, <<0, 0, 0, 1>>)

SaveMmioRead == \E width \in DevWidths : mmio_read(register_layout.base + MMIO_DATA, width)

SaveSave ==
    /\ ~fw_panicked
    /\ fw_wdata' = <<>>
    /\ fw_addr' = NoAddress
    /\ FwAccess("save", "NONE", 0, "Ok", FwState, <<>>)

\* FwCfg::new again, with the configuration the device was built with
SaveNew ==
    /\ fw_wdata' = <<>>
    /\ fw_addr' = NoAddress
    /\ FwAccess("new", "NONE", 0, "Ok", FwCfgFresh, <<>>)

SaveRestore ==
    /\ ~fw_panicked
    /\ fw_saved.some
    /\ fw_wdata' = <<>>
    /\ fw_addr' = NoAddress
    /\ FwAccess("restore", "NONE", 0, "Ok", FwCfg_restore(FwCfg_save), <<>>)

FwSaveNext ==
    SaveIoWrite \/ SaveIoRead \/ SaveMmioWrite \/ SaveMmioRead \/ SaveSave \/ SaveNew
        \/ SaveRestore

(***************************************************************************)
(* fw_cfg: properties of the data path (FwCfgSpec).                        *)
(***************************************************************************)
\* the last access was a data read that copied no byte
ExhaustedRead ==
    fw_last.op = "read" /\ fw_last.reg = "DATA" /\ fw_last.res = "Ok" /\ fw_last.out = <<>>

\* the last access was an accepted selector write
SelectorWritten ==
    fw_last.op = "write" /\ fw_last.reg = "SELECTOR" /\ fw_last.res = "Ok"

\* C1: whenever the selector of a registered file is selected and a data read
\* copies zero bytes, the bytes read since the selector was written are exactly
\* that file's content, whatever was written or read before.
C1_FileReadInFull ==
    \A i \in 1..Len(files) :
        (selector = BASE_FILE + (i - 1) /\ ExhaustedRead) => fw_acc = files[i].data

\* C2: a data read while a selector is selected that is not the signature, the
\* id, the file directory or a registered file's returns Ok and copies no byte.
C2_UnknownSelectorReadsEmpty ==
    ( /\ fw_last.op = "read" /\ fw_last.reg = "DATA"
      /\ selector \notin {SIGNATURE, ID, FILE_DIR}
      /\ ~(BASE_FILE <= selector /\ selector < BASE_FILE + Len(files)) )
    => (fw_last.res = "Ok" /\ fw_last.out = <<>>)

\* C3: every accepted selector write leaves the cursor at 0, also when it writes
\* the selector already selected, and a data read that directly follows it
\* starts at byte 0 of the item buffer.
C3_SelectorWriteResetsCursor ==
    [][ /\ ( fw_last'.op = "write" /\ fw_last'.reg = "SELECTOR" /\ fw_last'.res = "Ok" )
           => data_offset' = 0
        /\ ( SelectorWritten /\ fw_last'.op = "read" /\ fw_last'.reg = "DATA" )
           => ( /\ fw_last'.start = 0
                /\ fw_last'.out = Take(buf', fw_last'.width)
                /\ data_offset' = Len(fw_last'.out) ) ]_vars

\* C3's case: the selected selector is written again with the cursor inside the item
C3_Witness ==
    /\ SelectorWritten
    /\ fw_last.sel = selector
    /\ fw_last.start > 0
    /\ data_offset = 0

\* C4: a data read copies min(width, bytes remaining) bytes of the item buffer
\* from the cursor the previous read left, and advances the cursor by exactly
\* that many; the reads since the selector write are consecutive segments: put
\* together they are the buffer up to the cursor.
C4_ReadsAreConsecutiveSegments ==
    (fw_last.op = "read" /\ fw_last.reg = "DATA") =>
        LET n == Len(fw_last.out)
            remaining == IF Len(buf) >= fw_last.start THEN Len(buf) - fw_last.start ELSE 0
        IN  IF buf_valid
            THEN /\ n = Min(fw_last.width, remaining)
                 /\ data_offset = fw_last.start + n
                 /\ data_offset <= Len(buf)
                 /\ fw_last.out = SubSeq(buf, fw_last.start + 1, fw_last.start + n)
                 /\ fw_acc = SubSeq(buf, 1, data_offset)
            ELSE n = 0 /\ data_offset = fw_last.start

\* C4's case: a read that continues inside the item and is cut short by its end
C4_Witness ==
    /\ fw_last.op = "read" /\ fw_last.reg = "DATA"
    /\ fw_last.start > 0
    /\ fw_last.out # <<>>
    /\ Len(fw_last.out) < fw_last.width
    /\ Len(fw_acc) > Len(fw_last.out)

C12_NoAccessPanics ==
    /\ ~fw_panicked
    /\ fw_last.res \in {"Ok", "InvalidRegister", "InvalidAccessSize"}

\* C13: a DMA write whose descriptor cannot be read from guest memory returns Ok
\* without panicking and leaves the selector, the read cursor, the buffer and
\* its validity as they were.
C13_FailedDmaFetchLeavesDataPath ==
    [][ (fw_dma'.fetched /\ ~fw_dma'.ok) =>
            /\ ~fw_panicked'
            /\ fw_last'.res = "Ok"
            /\ UNCHANGED <<selector, data_offset, buf, buf_valid, files, register_layout>> ]_vars

\* C13's case: the fetch failed while the guest was part-way through an item
C13_Witness ==
    /\ fw_dma.fetched
    /\ ~fw_dma.ok
    /\ selector = SIGNATURE
    /\ buf_valid
    /\ data_offset = 1
    /\ buf = SignatureBytes

\* C14: the descriptor is fetched from (dma_hi << 32) | dma_lo: as 16 hex digits,
\* the digits of the high latch followed by those of the low latch.
C14_DescriptorAddress ==
    fw_dma.fetched => fw_dma.gpa = Nibbles(dma_hi) \o Nibbles(dma_lo)

\* C15: a selector write that is not 2 bytes wide returns InvalidAccessSize and
\* leaves the selector, the read cursor, the buffer and its validity unchanged.
C15_SelectorWriteOfWrongWidth ==
    [][ ( fw_last'.op = "write" /\ fw_last'.reg = "SELECTOR" /\ fw_last'.width # 2 ) =>
            /\ fw_last'.res = "InvalidAccessSize"
            /\ UNCHANGED <<selector, data_offset, buf, buf_valid>> ]_vars

\* C15's case: a 4-byte selector write on MMIO while an item is being read
C15_Witness ==
    /\ fw_last.op = "write" /\ fw_last.reg = "SELECTOR"
    /\ fw_last.width = 4
    /\ fw_last.res = "InvalidAccessSize"
    /\ register_layout.kind = "Mmio"
    /\ selector = SIGNATURE
    /\ data_offset = 1
    /\ buf_valid

\* C16: after reset the selector is 0xFFFF, the cursor 0, the buffer invalid
\* and both DMA latches 0.
C16_ResetRestoresPowerOn ==
    (fw_last.op = "reset") =>
        /\ selector = U16_MAX
        /\ data_offset = 0
        /\ ~buf_valid
        /\ dma_lo = LeBytes(0, 4)
        /\ dma_hi = LeBytes(0, 4)

\* C23: a write to the data register, of any width and in either layout,
\* returns Ok and leaves the selector, the read cursor, the buffer, its
\* validity and both DMA latches unchanged, and fetches no descriptor.
C23_DataWriteChangesNothing ==
    [][ (fw_last'.op = "write" /\ fw_last'.reg = "DATA") =>
            /\ fw_last'.res = "Ok"
            /\ ~fw_dma'.fetched
            /\ UNCHANGED <<selector, data_offset, buf, buf_valid, dma_lo, dma_hi,
                           fw_panicked, files, register_layout>> ]_vars

\* C23's case: a 4-byte write to the data register while an item is being read
C23_Witness ==
    /\ fw_last.op = "write" /\ fw_last.reg = "DATA"
    /\ fw_last.width = 4
    /\ selector = SIGNATURE
    /\ buf_valid
    /\ data_offset = 1

\* C24: an 8-byte write to DMA_HI latches its first 4 bytes as the high half
\* and its last 4 bytes as the low half and fetches the descriptor, with the
\* latches, the fetch and its outcome those of a 4-byte write of the first half
\* to DMA_HI followed by a 4-byte write of the second half to DMA_LO; a 4-byte
\* write to DMA_HI latches the high half only and fetches nothing.
C24_CombinedDmaWrite ==
    [][ (fw_last'.op = "write" /\ fw_last'.reg = "DMA_HI") =>
            LET d == fw_wdata'
            IN  /\ Len(d) = 8 =>
                    LET hi == write_dma_hi(SubSeq(d, 1, 4))
                        lo == write_dma_lo(hi.dma_hi, SubSeq(d, 5, 8))
                    IN  /\ ~hi.fetched
                        /\ dma_hi' = SubSeq(d, 1, 4)
                        /\ dma_lo' = SubSeq(d, 5, 8)
                        /\ dma_hi' = lo.dma_hi
                        /\ dma_lo' = lo.dma_lo
                        /\ fw_dma'.fetched
                        /\ fw_dma' = [fetched |-> lo.fetched, gpa |-> lo.gpa,
                                      ok |-> lo.panicked]
                        /\ fw_panicked' = lo.panicked
                        /\ UNCHANGED <<selector, data_offset, buf, buf_valid>>
                /\ Len(d) = 4 =>
                        /\ dma_hi' = d
                        /\ ~fw_dma'.fetched
                        /\ ~fw_panicked'
                        /\ fw_last'.res = "Ok"
                        /\ UNCHANGED <<dma_lo, selector, data_offset, buf, buf_valid>> ]_vars

\* C24's case: an 8-byte write to DMA_HI whose two halves differ
C24_Witness ==
    /\ fw_last.op = "write" /\ fw_last.reg = "DMA_HI"
    /\ fw_wdata = <<255, 255, 255, 255, 0, 0, 16, 0>>
    /\ dma_hi = <<255, 255, 255, 255>>
    /\ dma_lo = <<0, 0, 16, 0>>
    /\ fw_dma.fetched

\* C25: a 2-byte selector write of bytes b0, b1 sets the selector to
\* b0 + 256 * b1 on I/O ports and to 256 * b0 + b1 on MMIO.
C25_SelectorByteOrder ==
    (fw_last.op = "write" /\ fw_last.reg = "SELECTOR" /\ fw_last.width = 2) =>
        /\ fw_last.res = "Ok"
        /\ selector = IF register_layout.kind = "IoPort"
                      THEN fw_wdata[1] + 256 * fw_wdata[2]
                      ELSE 256 * fw_wdata[1] + fw_wdata[2]

\* C25's case: the bytes 0x00, 0x19 written to the I/O-port selector register
C25_Witness ==
    /\ fw_last.op = "write" /\ fw_last.reg = "SELECTOR"
    /\ register_layout.kind = "IoPort"
    /\ fw_wdata = <<0, FILE_DIR>>
    /\ selector = 256 * FILE_DIR

\* C26: on the I/O-port layout one read of the data register copies at most
\* one byte and advances the read cursor by at most 1.
C26_PioDataReadIsOneByte ==
    (register_layout.kind = "IoPort" /\ fw_last.op = "read" /\ fw_last.reg = "DATA") =>
        /\ Len(fw_last.out) <= 1
        /\ data_offset - fw_last.start <= 1

\* C27: a DMA write whose descriptor was read from guest memory completes:
\* the transfer is carried out and the write returns Ok.
C27_FetchedDescriptorIsCarriedOut ==
    (fw_dma.fetched /\ fw_dma.ok) => (fw_last.res = "Ok" /\ ~fw_panicked)

\* C30: whenever the buffer is marked valid, its bytes are the content of the
\* selected item.
C30_ValidBufferIsSelectedItem ==
    buf_valid => buf = read_data_fill(selector).bytes

\* C31: the read cursor never exceeds the length of the buffer, and a data
\* read that finds the cursor at the end of the buffer it serves returns Ok,
\* copies no byte and leaves the cursor where it was, every time.
C31_CursorWithinBuffer ==
    /\ [](data_offset <= Len(buf))
    /\ [][ (fw_last'.op = "read" /\ fw_last'.reg = "DATA" /\ data_offset >= Len(buf')) =>
                /\ fw_last'.res = "Ok"
                /\ fw_last'.out = <<>>
                /\ data_offset' = data_offset
                /\ UNCHANGED selector ]_vars

\* C31's case: the signature has been read to its end and is read once more
C31_Witness ==
    /\ ExhaustedRead
    /\ buf_valid
    /\ buf = SignatureBytes
    /\ fw_last.start = Len(buf)
    /\ data_offset = Len(buf)
    /\ fw_acc = SignatureBytes

\* the access being made is a read of a register other than DATA, or a write
\* to an offset that is none of SELECTOR, DATA, DMA_HI and DMA_LO
UnmappedAccess(layout, op, addr) ==
    IF layout.kind = "IoPort"
    THEN \/ op = "read" /\ addr # PIO_DATA
         \/ op = "write" /\ addr \notin {PIO_SELECTOR, PIO_DATA, PIO_DMA_HI, PIO_DMA_LO}
    ELSE \/ op = "read" /\ addr # layout.base + MMIO_DATA
         \/ op = "write" /\ addr \notin {layout.base + MMIO_SELECTOR, layout.base + MMIO_DATA,
                                          layout.base + MMIO_DMA_HI, layout.base + MMIO_DMA_LO}

\* C32: a read of any claimed address other than the data register, and a
\* write to a claimed address that names no register, returns InvalidRegister
\* and leaves the selector, the cursor, the buffer, its validity and the DMA
\* latches unchanged.
C32_InvalidRegister ==
    [][ UnmappedAccess(register_layout, fw_last'.op, fw_addr') =>
            /\ fw_last'.res = "InvalidRegister"
            /\ fw_last'.out = <<>>
            /\ ~fw_dma'.fetched
            /\ UNCHANGED <<selector, data_offset, buf, buf_valid, dma_lo, dma_hi,
                           fw_panicked>> ]_vars

\* C32's case: the selector register is read while the signature is part read
C32_Witness ==
    /\ fw_last.op = "read"
    /\ register_layout.kind = "IoPort"
    /\ fw_addr = PIO_SELECTOR
    /\ fw_last.res = "InvalidRegister"
    /\ selector = SIGNATURE
    /\ buf_valid
    /\ data_offset = 1

\* the i-th 64-byte record (0-based) of the file directory gen_file_dir builds
DirRecord(i) == SubSeq(gen_file_dir(files).bytes, 4 + 64 * i + 1, 4 + 64 * i + 64)

\* the size and select fields of a record, both big-endian
DirRecordSize(rec) == 65536 * (256 * rec[1] + rec[2]) + 256 * rec[3] + rec[4]
DirRecordSelect(rec) == 256 * rec[5] + rec[6]

C34_RestoreReinstatesVolatileState ==
    [][ (fw_last'.op = "restore" /\ fw_last.op = "new") =>
            /\ selector' = fw_saved.from.selector
            /\ data_offset' = fw_saved.from.data_offset
            /\ dma_lo' = fw_saved.from.dma_lo
            /\ dma_hi' = fw_saved.from.dma_hi ]_vars

(***************************************************************************)
(* PS/2 mouse: constants (ps2mouse.rs 22-59, 94).                          *)
(***************************************************************************)
SET_SCALING_1_1 == 230
SET_RESOLUTION == 232
GET_ID == 242
SET_SAMPLE_RATE == 243
SET_DEFAULTS == 246
ENABLE_DATA_REPORTING == 244
DISABLE_DATA_REPORTING == 245
RESEND == 254
RESET == 255
ACKNOWLEDGE_COMMAND == 250
SELF_TEST_COMPLETE == 170
MOUSE_BUFFER_SIZE == 65

\* Option::None for previous_command and for command()'s data byte
NoCommand == -1
NoData == -1

(***************************************************************************)
(* PS/2 mouse: the operations (impl Ps2Mouse, ps2mouse.rs 96-211, 231-263) *)
(* as functions of the MouseState record st.                               *)
(***************************************************************************)
\* MouseState::new (ps2mouse.rs 82-91)
MouseStateNew ==
    [previous_command |-> NoCommand, output_buffer |-> <<>>, active |-> FALSE,
     last_output_byte_read |-> 0, prev_x |-> 0, prev_y |-> 0]

\* a push that takes the queue for full where poll stops pulling
push_full_at_poll_limit(q, value) ==
    IF Len(q) < MOUSE_BUFFER_SIZE - 4 THEN Append(q, value)
    ELSE [q EXCEPT ![Len(q)] = 0]

\* Ps2Mouse::push (ps2mouse.rs 160-167) on the queue q
push(q, value) ==
    IF Len(q) <= MOUSE_BUFFER_SIZE THEN Append(q, value)
    ELSE [q EXCEPT ![Len(q)] = 0]

\* st with `value` pushed
Pushed(st, value) == [st EXCEPT !.output_buffer = push(@, value)]

\* a command that acknowledges SET_SAMPLE_RATE and SET_RESOLUTION only once
\* their data byte has arrived
command_one_ack(st, cmd, data) ==
    IF cmd = SET_SAMPLE_RATE \/ cmd = SET_RESOLUTION
    THEN IF data = NoData THEN [st |-> st, done |-> FALSE]
         ELSE [st |-> Pushed(st, ACKNOWLEDGE_COMMAND), done |-> TRUE]
    ELSE IF cmd = ENABLE_DATA_REPORTING
    THEN [st |-> [Pushed(st, ACKNOWLEDGE_COMMAND) EXCEPT !.active = TRUE], done |-> TRUE]
    ELSE IF cmd = DISABLE_DATA_REPORTING
    THEN [st |-> [Pushed(st, ACKNOWLEDGE_COMMAND) EXCEPT !.active = FALSE], done |-> TRUE]
    ELSE IF cmd = GET_ID
    THEN [st |-> Pushed(Pushed(st, ACKNOWLEDGE_COMMAND), 0), done |-> TRUE]
    ELSE IF cmd = RESEND
    THEN [st |-> Pushed(st, st.last_output_byte_read), done |-> TRUE]
    ELSE IF cmd = RESET
    THEN [st |-> Pushed(Pushed(Pushed(st, ACKNOWLEDGE_COMMAND), SELF_TEST_COMPLETE), 0),
          done |-> TRUE]
    ELSE [st |-> Pushed(st, ACKNOWLEDGE_COMMAND), done |-> TRUE]

\* a command whose default arm pushes nothing for an unhandled opcode
command_silent_unknown(st, cmd, data) ==
    IF cmd = SET_SAMPLE_RATE \/ cmd = SET_RESOLUTION
    THEN [st |-> Pushed(st, ACKNOWLEDGE_COMMAND), done |-> data # NoData]
    ELSE IF cmd = ENABLE_DATA_REPORTING
    THEN [st |-> [Pushed(st, ACKNOWLEDGE_COMMAND) EXCEPT !.active = TRUE], done |-> TRUE]
    ELSE IF cmd = DISABLE_DATA_REPORTING
    THEN [st |-> [Pushed(st, ACKNOWLEDGE_COMMAND) EXCEPT !.active = FALSE], done |-> TRUE]
    ELSE IF cmd = GET_ID
    THEN [st |-> Pushed(Pushed(st, ACKNOWLEDGE_COMMAND), 0), done |-> TRUE]
    ELSE IF cmd = RESEND
    THEN [st |-> Pushed(st, st.last_output_byte_read), done |-> TRUE]
    ELSE IF cmd = RESET
    THEN [st |-> Pushed(Pushed(Pushed(st, ACKNOWLEDGE_COMMAND), SELF_TEST_COMPLETE), 0),
          done |-> TRUE]
    ELSE [st |-> st, done |-> TRUE]

\* a command whose RESET arm reinitialises the state before pushing its bytes
command_reset_reinitialises(st, cmd, data) ==
    IF cmd = SET_SAMPLE_RATE \/ cmd = SET_RESOLUTION
    THEN [st |-> Pushed(st, ACKNOWLEDGE_COMMAND), done |-> data # NoData]
    ELSE IF cmd = ENABLE_DATA_REPORTING
    THEN [st |-> [Pushed(st, ACKNOWLEDGE_COMMAND) EXCEPT !.active = TRUE], done |-> TRUE]
    ELSE IF cmd = DISABLE_DATA_REPORTING
    THEN [st |-> [Pushed(st, ACKNOWLEDGE_COMMAND) EXCEPT !.active = FALSE], done |-> TRUE]
    ELSE IF cmd = GET_ID
    THEN [st |-> Pushed(Pushed(st, ACKNOWLEDGE_COMMAND), 0), done |-> TRUE]
    ELSE IF cmd = RESEND
    THEN [st |-> Pushed(st, st.last_output_byte_read), done |-> TRUE]
    ELSE IF cmd = RESET
    THEN [st |-> Pushed(Pushed(Pushed(MouseStateNew, ACKNOWLEDGE_COMMAND),
                               SELF_TEST_COMPLETE), 0),
          done |-> TRUE]
    ELSE [st |-> Pushed(st, ACKNOWLEDGE_COMMAND), done |-> TRUE]

\* a command whose RESET arm also switches data reporting off
command_reset_disables(st, cmd, data) ==
    IF cmd = SET_SAMPLE_RATE \/ cmd = SET_RESOLUTION
    THEN [st |-> Pushed(st, ACKNOWLEDGE_COMMAND), done |-> data # NoData]
    ELSE IF cmd = ENABLE_DATA_REPORTING
    THEN [st |-> [Pushed(st, ACKNOWLEDGE_COMMAND) EXCEPT !.active = TRUE], done |-> TRUE]
    ELSE IF cmd = DISABLE_DATA_REPORTING
    THEN [st |-> [Pushed(st, ACKNOWLEDGE_COMMAND) EXCEPT !.active = FALSE], done |-> TRUE]
    ELSE IF cmd = GET_ID
    THEN [st |-> Pushed(Pushed(st, ACKNOWLEDGE_COMMAND), 0), done |-> TRUE]
    ELSE IF cmd = RESEND
    THEN [st |-> Pushed(st, st.last_output_byte_read), done |-> TRUE]
    ELSE IF cmd = RESET
    THEN [st |-> [Pushed(Pushed(Pushed(st, ACKNOWLEDGE_COMMAND), SELF_TEST_COMPLETE), 0)
                    EXCEPT !.active = FALSE],
          done |-> TRUE]
    ELSE [st |-> Pushed(st, ACKNOWLEDGE_COMMAND), done |-> TRUE]

\* Ps2Mouse::command (ps2mouse.rs 169-210): the state after, and whether it
\* returned Some(()) (done) or None (the command waits for its data byte)
command(st, cmd, data) ==
    IF cmd = SET_SAMPLE_RATE \/ cmd = SET_RESOLUTION
    THEN [st |-> Pushed(st, ACKNOWLEDGE_COMMAND), done |-> data # NoData]
    ELSE IF cmd = ENABLE_DATA_REPORTING
    THEN [st |-> [Pushed(st, ACKNOWLEDGE_COMMAND) EXCEPT !.active = TRUE], done |-> TRUE]
    ELSE IF cmd = DISABLE_DATA_REPORTING
    THEN [st |-> [Pushed(st, ACKNOWLEDGE_COMMAND) EXCEPT !.active = FALSE], done |-> TRUE]
    ELSE IF cmd = GET_ID
    THEN [st |-> Pushed(Pushed(st, ACKNOWLEDGE_COMMAND), 0), done |-> TRUE]
    ELSE IF cmd = RESEND
    THEN [st |-> Pushed(st, st.last_output_byte_read), done |-> TRUE]
    ELSE IF cmd = RESET
    THEN [st |-> Pushed(Pushed(Pushed(st, ACKNOWLEDGE_COMMAND), SELF_TEST_COMPLETE), 0),
          done |-> TRUE]
    ELSE [st |-> Pushed(st, ACKNOWLEDGE_COMMAND), done |-> TRUE]

\* an input that leaves the pending command in place while its data byte is handled
input_keeps_pending(st, byte) ==
    LET pending == st.previous_command # NoCommand
        cmd == IF pending THEN st.previous_command ELSE byte
        data == IF pending THEN byte ELSE NoData
        r == command(st, cmd, data)
    IN  IF r.done THEN r.st ELSE [r.st EXCEPT !.previous_command = cmd]

\* an input that reads every byte as a command opcode, pending command or not
input_always_opcode(st, byte) ==
    LET r == command([st EXCEPT !.previous_command = NoCommand], byte, NoData)
    IN  IF r.done THEN r.st ELSE [r.st EXCEPT !.previous_command = byte]

\* Ps2Mouse::input (ps2mouse.rs 149-158)
input(st, byte) ==
    LET pending == st.previous_command # NoCommand
        cmd == IF pending THEN st.previous_command ELSE byte
        data == IF pending THEN byte ELSE NoData
        r == command([st EXCEPT !.previous_command = NoCommand], cmd, data)
    IN  IF r.done THEN r.st ELSE [r.st EXCEPT !.previous_command = cmd]

\* an output that does not record the byte it returns
output_unrecorded(st) ==
    IF Len(st.output_buffer) = 0 THEN [st |-> st, ret |-> NoData]
    ELSE [st |-> [st EXCEPT !.output_buffer = Tail(@)], ret |-> Head(st.output_buffer)]

\* an output that pops the newest byte
output_newest(st) ==
    IF Len(st.output_buffer) = 0 THEN [st |-> st, ret |-> NoData]
    ELSE LET last == st.output_buffer[Len(st.output_buffer)]
         IN  [st |-> [st EXCEPT !.output_buffer = SubSeq(@, 1, Len(@) - 1),
                                !.last_output_byte_read = last],
              ret |-> last]

\* Ps2Mouse::output (ps2mouse.rs 143-147): the state after and the Option<u8>
\* returned (NoData for None)
output(st) ==
    IF Len(st.output_buffer) = 0 THEN [st |-> st, ret |-> NoData]
    ELSE [st |-> [st EXCEPT !.output_buffer = Tail(@),
                           !.last_output_byte_read = Head(st.output_buffer)],
          ret |-> Head(st.output_buffer)]

\* i32 division, truncating toward zero
TruncDiv(a, b) == IF a >= 0 THEN a \div b ELSE -((-a) \div b)

\* `v as u8` of an i32
AsU8(v) == v % 256

Bit(b) == IF b THEN 1 ELSE 0

\* MouseDataButtonMask (input_core/src/lib.rs 42-53): left, middle, right
MaskLeft(m) == m % 2 = 1
MaskMiddle(m) == (m \div 2) % 2 = 1
MaskRight(m) == (m \div 4) % 2 = 1

\* a header with the two sign bits exchanged
MousePacketHeaderSignsSwapped(left, right, middle, always_one, x_sign, y_sign) ==
    Bit(left) + 2 * Bit(right) + 4 * Bit(middle) + 8 * Bit(always_one)
        + 32 * Bit(x_sign) + 16 * Bit(y_sign)

\* spec::MousePacketHeader::into_bits (ps2mouse.rs 45-56): bit 0 left, 1 right,
\* 2 middle, 3 always_one, 4 x_sign, 5 y_sign, 6 x_overflow, 7 y_overflow
MousePacketHeader(left, right, middle, always_one, x_sign, y_sign) ==
    Bit(left) + 2 * Bit(right) + 4 * Bit(middle) + 8 * Bit(always_one)
        + 16 * Bit(x_sign) + 32 * Bit(y_sign)

\* a loop body that divides the deltas rounding down instead of toward zero
ingest_floor_division(st, ev) ==
    LET dx == (-(st.prev_x - ev.x)) \div 16
        dy == (st.prev_y - ev.y) \div 16
        header == MousePacketHeader(MaskLeft(ev.button_mask), MaskRight(ev.button_mask),
                                    MaskMiddle(ev.button_mask), TRUE, dx < 0, dy < 0)
    IN  [st EXCEPT !.prev_x = ev.x, !.prev_y = ev.y,
                   !.output_buffer = @ \o <<header, AsU8(dx), AsU8(dy)>>]

\* the body of poll's loop for one event while reporting is active
\* (ps2mouse.rs 115-136)
ingest(st, ev) ==
    LET dx == TruncDiv(-(st.prev_x - ev.x), 16)
        dy == TruncDiv(st.prev_y - ev.y, 16)
        header == MousePacketHeader(MaskLeft(ev.button_mask), MaskRight(ev.button_mask),
                                    MaskMiddle(ev.button_mask), TRUE, dx < 0, dy < 0)
    IN  [st EXCEPT !.prev_x = ev.x, !.prev_y = ev.y,
                   !.output_buffer = @ \o <<header, AsU8(dx), AsU8(dy)>>]

\* a poll that tracks the position of the events it discards
RECURSIVE poll_tracking(_, _)
poll_tracking(st, evs) ==
    IF ~(Len(st.output_buffer) < MOUSE_BUFFER_SIZE - 4) \/ Len(evs) = 0
    THEN [st |-> st, pulled |-> 0]
    ELSE LET r == poll_tracking(IF st.active THEN ingest(st, Head(evs))
                                ELSE [st EXCEPT !.prev_x = Head(evs).x,
                                                !.prev_y = Head(evs).y],
                                Tail(evs))
         IN  [st |-> r.st, pulled |-> r.pulled + 1]

\* a poll that still pulls with exactly 4 bytes of headroom
RECURSIVE poll_at_four(_, _)
poll_at_four(st, evs) ==
    IF ~(Len(st.output_buffer) <= MOUSE_BUFFER_SIZE - 4) \/ Len(evs) = 0
    THEN [st |-> st, pulled |-> 0]
    ELSE LET r == poll_at_four(IF st.active THEN ingest(st, Head(evs)) ELSE st, Tail(evs))
         IN  [st |-> r.st, pulled |-> r.pulled + 1]

\* Ps2Mouse::poll (ps2mouse.rs 108-141) against an input source that has the
\* events evs ready and is then pending: the state after, and the number of
\* events pulled from the source
RECURSIVE poll(_, _)
poll(st, evs) ==
    IF ~(Len(st.output_buffer) < MOUSE_BUFFER_SIZE - 4) \/ Len(evs) = 0
    THEN [st |-> st, pulled |-> 0]
    ELSE LET r == poll(IF st.active THEN ingest(st, Head(evs)) ELSE st, Tail(evs))
         IN  [st |-> r.st, pulled |-> r.pulled + 1]

\* a reset that only empties the queue
reset_queue_only(st) == [st EXCEPT !.output_buffer = <<>>]

\* Ps2Mouse::reset (ps2mouse.rs 104-106)
reset(st) == MouseStateNew

\* a save that leaves the queue out of the saved state
save_without_queue(st) == [output_buffer |-> <<>>]

\* SaveRestore::save (ps2mouse.rs 234-254): the SavedState
save(st) == [output_buffer |-> st.output_buffer]

\* SaveRestore::restore (ps2mouse.rs 256-262)
restore(st, saved) == [st EXCEPT !.output_buffer = saved.output_buffer]

(***************************************************************************)
(* PS/2 mouse: the device's steps.  m_last records the operation, its      *)
(* input, the state it started from and what it returned.                  *)
(***************************************************************************)
\* the device's MouseState as a record
MouseSt ==
    [previous_command |-> previous_command, output_buffer |-> output_buffer,
     active |-> active, last_output_byte_read |-> last_output_byte_read,
     prev_x |-> prev_x, prev_y |-> prev_y]

\* Ps2Mouse::new (ps2mouse.rs 97-102)
Ps2MouseNew ==
    /\ previous_command = MouseStateNew.previous_command
    /\ output_buffer = MouseStateNew.output_buffer
    /\ active = MouseStateNew.active
    /\ last_output_byte_read = MouseStateNew.last_output_byte_read
    /\ prev_x = MouseStateNew.prev_x
    /\ prev_y = MouseStateNew.prev_y
    /\ m_saved = [some |-> FALSE, from |-> MouseStateNew, output_buffer |-> <<>>]
    /\ m_last = [op |-> "new", byte |-> NoData, evs |-> <<>>, pre |-> MouseStateNew,
                 paired |-> FALSE, q0 |-> <<>>, ret |-> NoData, pulled |-> 0]
    /\ m_returned = [byte |-> NoData, reset_since |-> FALSE]
    /\ m_tags = <<>>
    /\ m_nops = 0
    /\ poll_pc = "idle"
    /\ poll_source = 0
    /\ poll_pos = 0

\* one operation `op` (on input byte `byte`, or with the events evs ready) that
\* leaves the device in state st, returns ret and pulls `pulled` events; it counts
\* `cost` against the bound on operations
MouseStep(op, byte, evs, st, ret, pulled, cost) ==
    /\ previous_command' = st.previous_command
    /\ output_buffer' = st.output_buffer
    /\ active' = st.active
    /\ last_output_byte_read' = st.last_output_byte_read
    /\ prev_x' = st.prev_x
    /\ prev_y' = st.prev_y
    /\ m_last' = [op |-> op, byte |-> byte, evs |-> evs, pre |-> MouseSt,
                  \* this input is the data byte of the command whose opcode was
                  \* the input just before
                  paired |-> op = "input" /\ previous_command # NoCommand
                             /\ m_last.op = "input",
                  \* the queue before that opcode
                  q0 |-> IF op = "input" /\ previous_command # NoCommand
                            /\ m_last.op = "input"
                         THEN m_last.pre.output_buffer ELSE output_buffer,
                  ret |-> ret, pulled |-> pulled]
    /\ m_returned' = IF op = "output" /\ ret # NoData
                     THEN [byte |-> ret, reset_since |-> FALSE]
                     ELSE IF op = "reset" THEN [m_returned EXCEPT !.reset_since = TRUE]
                     ELSE m_returned
    /\ m_saved' = IF op = "save" THEN [some |-> TRUE, from |-> MouseSt] @@ save(MouseSt)
                  ELSE m_saved
    /\ m_tags' = LET added == Len(st.output_buffer) - Len(output_buffer)
                 IN  IF op = "poll"
                     THEN m_tags \o [i \in 1..added |-> <<"header", "dx", "dy">>[((i - 1) % 3) + 1]]
                     ELSE IF op = "input" THEN m_tags \o [i \in 1..added |-> "response"]
                     ELSE IF op = "output" THEN SubSeq(m_tags, 2, Len(m_tags))
                     ELSE IF op = "reset" THEN <<>>
                     ELSE IF op = "restore"
                     THEN [i \in 1..Len(st.output_buffer) |-> "restored"]
                     ELSE m_tags
    /\ m_nops' = m_nops + cost
    /\ UNCHANGED <<poll_pc, poll_source, poll_pos>>
    /\ UNCHANGED fw_vars

\* the command and data bytes the guest sends
InputBytes == { SET_SAMPLE_RATE, SET_RESOLUTION, ENABLE_DATA_REPORTING,
                DISABLE_DATA_REPORTING, GET_ID, RESEND, RESET, SET_SCALING_1_1,
                SET_DEFAULTS }

\* the events the input source delivers
MouseEvents == { [x |-> 32, y |-> 16, button_mask |-> 0],
                 [x |-> 8, y |-> 40, button_mask |-> 2] }

\* what the source has ready when polled: up to MaxEvents events
EventSeqs == UNION { [1..n -> MouseEvents] : n \in 0..MaxEvents }

MouseInput ==
    \E b \in InputBytes :
        /\ m_nops < MaxOps
        /\ MouseStep("input", b, <<>>, input(MouseSt, b), NoData, 0, 1)

MousePoll ==
    \E evs \in EventSeqs :
        /\ m_nops < MaxOps
        /\ LET r == poll(MouseSt, evs)
           IN  MouseStep("poll", NoData, evs, r.st, NoData, r.pulled, 1)

MouseOutput ==
    /\ m_nops < MaxOps
    /\ LET r == output(MouseSt)
       IN  MouseStep("output", NoData, <<>>, r.st, r.ret, 0, 1)

MouseReset ==
    /\ m_nops < MaxOps
    /\ MouseStep("reset", NoData, <<>>, reset(MouseSt), NoData, 0, 1)

MouseSave ==
    /\ m_nops < MaxOps
    /\ MouseStep("save", NoData, <<>>, MouseSt, NoData, 0, 1)

MouseRestore ==
    /\ m_nops < MaxOps
    /\ m_saved.some
    /\ MouseStep("restore", NoData, <<>>, restore(MouseSt, m_saved), NoData, 0, 1)

MouseNext ==
    MouseInput \/ MousePoll \/ MouseOutput \/ MouseReset \/ MouseSave \/ MouseRestore

(***************************************************************************)
(* PS/2 mouse: the steps of a run that fills the output queue.  The guest  *)
(* sends RESET commands without bound; every other operation counts        *)
(* against MaxFillOps.                                                     *)
(***************************************************************************)
FillCommand ==
    /\ previous_command = NoCommand
    /\ MouseStep("input", RESET, <<>>, input(MouseSt, RESET), NoData, 0, 0)

FillEnable ==
    /\ m_nops < MaxFillOps
    /\ MouseStep("input", ENABLE_DATA_REPORTING, <<>>,
                 input(MouseSt, ENABLE_DATA_REPORTING), NoData, 0, 1)

FillPoll ==
    \E evs \in EventSeqs :
        /\ m_nops < MaxFillOps
        /\ LET r == poll(MouseSt, evs)
           IN  MouseStep("poll", NoData, evs, r.st, NoData, r.pulled, 1)

FillOutput ==
    /\ m_nops < MaxFillOps
    /\ LET r == output(MouseSt)
       IN  MouseStep("output", NoData, <<>>, r.st, r.ret, 0, 1)

FillReset ==
    /\ m_nops < MaxFillOps
    /\ MouseStep("reset", NoData, <<>>, reset(MouseSt), NoData, 0, 1)

FillSave ==
    /\ m_nops < MaxFillOps
    /\ MouseStep("save", NoData, <<>>, MouseSt, NoData, 0, 1)

FillRestore ==
    /\ m_nops < MaxFillOps
    /\ m_saved.some
    /\ MouseStep("restore", NoData, <<>>, restore(MouseSt, m_saved), NoData, 0, 1)

FillNext ==
    FillCommand \/ FillEnable \/ FillPoll \/ FillOutput \/ FillReset \/ FillSave
        \/ FillRestore

(***************************************************************************)
(* PS/2 mouse: single events over the range of u16 positions.              *)
(***************************************************************************)
\* positions of the events: the origin, two positions fewer than 16 units
\* apart, one further away, and the largest u16
PacketCoords == { 0, 5, 16, 40, U16_MAX }

\* one event at each pair of positions, with no button or with all three pressed
PacketEvents == [x : PacketCoords, y : PacketCoords, button_mask : {0, 7}]

PacketEnable ==
    /\ m_nops < MaxPacketOps
    /\ ~active
    /\ MouseStep("input", ENABLE_DATA_REPORTING, <<>>,
                 input(MouseSt, ENABLE_DATA_REPORTING), NoData, 0, 1)

\* a poll that finds one event ready
PacketPoll ==
    \E ev \in PacketEvents :
        /\ m_nops < MaxPacketOps
        /\ LET r == poll(MouseSt, <<ev>>)
           IN  MouseStep("poll", NoData, <<ev>>, r.st, NoData, r.pulled, 1)

PacketNext == PacketEnable \/ PacketPoll

(***************************************************************************)
(* PS/2 mouse: poll, one turn of its loop at a time (ps2mouse.rs 109-140), *)
(* against an input source that has some events ready or always has one.   *)
(* A call that does not return cannot be one step, so here a call is the   *)
(* steps PollCall, PollIterate ..., PollReturn.                            *)
(***************************************************************************)
\* an input source whose poll_next returns Ready(Some(_)) every time
AlwaysReady == -1

\* what the source has ready when poll is called
PollSources == (0..MaxEvents) \cup {AlwaysReady}

\* the event at a position of the source's stream
PollStreamEvent(pos) ==
    IF pos = 0 THEN [x |-> 32, y |-> 16, button_mask |-> 0]
    ELSE [x |-> 8, y |-> 40, button_mask |-> 2]

\* the body of poll's loop once poll_next has returned the event ev
\* (ps2mouse.rs 111-136)
poll_iteration(st, ev) == IF st.active THEN ingest(st, ev) ELSE st

\* a step of the loop specification: the device state st, and the call and its source
PollLoopStep(st, pc, source, pos, cost) ==
    /\ previous_command' = st.previous_command
    /\ output_buffer' = st.output_buffer
    /\ active' = st.active
    /\ last_output_byte_read' = st.last_output_byte_read
    /\ prev_x' = st.prev_x
    /\ prev_y' = st.prev_y
    /\ poll_pc' = pc
    /\ poll_source' = source
    /\ poll_pos' = pos
    /\ m_nops' = m_nops + cost
    /\ UNCHANGED <<m_saved, m_last, m_returned, m_tags>>
    /\ UNCHANGED fw_vars

\* the guest switches data reporting on or off between two calls of poll
PollCommand ==
    \E b \in {ENABLE_DATA_REPORTING, DISABLE_DATA_REPORTING} :
        /\ poll_pc = "idle"
        /\ m_nops < MaxLoopOps
        /\ MouseStep("input", b, <<>>, input(MouseSt, b), NoData, 0, 1)

\* poll is called
PollCall ==
    \E source \in PollSources :
        /\ poll_pc = "idle"
        /\ m_nops < MaxLoopOps
        /\ PollLoopStep(MouseSt, "loop", source, poll_pos, 1)

\* one turn of the loop: the condition of the while holds and poll_next
\* returns an event
PollIterate ==
    /\ poll_pc = "loop"
    /\ Len(output_buffer) < MOUSE_BUFFER_SIZE - 4
    /\ poll_source # 0
    /\ PollLoopStep(poll_iteration(MouseSt, PollStreamEvent(poll_pos)), "loop",
                    IF poll_source = AlwaysReady THEN AlwaysReady ELSE poll_source - 1,
                    1 - poll_pos, 0)

\* the loop ends: the condition of the while fails, or poll_next returns no
\* event (the break)
PollReturn ==
    /\ poll_pc = "loop"
    /\ \/ ~(Len(output_buffer) < MOUSE_BUFFER_SIZE - 4)
       \/ poll_source = 0
    /\ PollLoopStep(MouseSt, "idle", poll_source, poll_pos, 0)

PollLoopNext == PollCommand \/ PollCall \/ PollIterate \/ PollReturn

(***************************************************************************)
(* PS/2 mouse: properties (MouseSpec, MouseFillSpec).                      *)
(***************************************************************************)
\* the last operation was input(byte) taken as a command opcode
CommandIssued(byte) ==
    m_last.op = "input" /\ m_last.byte = byte /\ m_last.pre.previous_command = NoCommand

\* the last operation was the data byte of SET_SAMPLE_RATE or SET_RESOLUTION,
\* sent right after the opcode
DataByteSent ==
    /\ m_last.op = "input"
    /\ m_last.paired
    /\ m_last.pre.previous_command \in {SET_SAMPLE_RATE, SET_RESOLUTION}

\* C6: the output queue never holds more than MOUSE_BUFFER_SIZE bytes.
C6_QueueWithinCapacity == Len(output_buffer) <= MOUSE_BUFFER_SIZE

\* C7: an input whose response is pushed onto a queue that already holds
\* MOUSE_BUFFER_SIZE bytes leaves the length unchanged, makes the last byte 0
\* and keeps every earlier byte.
C7_PushAtCapacityOverwrites ==
    (m_last.op = "input" /\ Len(m_last.pre.output_buffer) = MOUSE_BUFFER_SIZE) =>
        /\ Len(output_buffer) = MOUSE_BUFFER_SIZE
        /\ output_buffer[MOUSE_BUFFER_SIZE] = 0
        /\ \A k \in 1..(MOUSE_BUFFER_SIZE - 1) : output_buffer[k] = m_last.pre.output_buffer[k]

\* C8 as stated: the opcode and the data byte of SET_SAMPLE_RATE or
\* SET_RESOLUTION together append exactly one acknowledgement.
C8_OneAckInTotal ==
    DataByteSent =>
        /\ output_buffer = m_last.q0 \o <<ACKNOWLEDGE_COMMAND>>
        /\ previous_command = NoCommand

\* C8, amended: with no command pending and at least two free places in the
\* queue, the opcode and the data byte of SET_SAMPLE_RATE or SET_RESOLUTION
\* together append exactly two acknowledgements, one per input byte, and leave
\* no command pending.
C8_OneAckPerByte ==
    (DataByteSent /\ Len(m_last.q0) + 2 <= MOUSE_BUFFER_SIZE) =>
        /\ output_buffer = m_last.q0 \o <<ACKNOWLEDGE_COMMAND, ACKNOWLEDGE_COMMAND>>
        /\ previous_command = NoCommand

\* C8's case: a command opcode sent as the data byte of SET_SAMPLE_RATE
C8_Witness ==
    /\ DataByteSent
    /\ m_last.pre.previous_command = SET_SAMPLE_RATE
    /\ m_last.byte = RESEND
    /\ Len(output_buffer) = Len(m_last.q0) + 2

\* C9 as stated: once output() has returned a byte, a RESEND command issued with
\* room in the queue appends exactly the byte output() last returned.
C9_ResendRepeatsLastRead ==
    ( /\ CommandIssued(RESEND)
      /\ m_returned.byte # NoData
      /\ Len(m_last.pre.output_buffer) < MOUSE_BUFFER_SIZE )
    => output_buffer = m_last.pre.output_buffer \o <<m_returned.byte>>

\* C9, amended: once output() has returned a byte and the device has not been
\* reset since, a RESEND command issued with room in the queue appends exactly
\* the byte output() last returned, and nothing else changes.
C9_ResendRepeatsLastReadUnlessReset ==
    ( /\ CommandIssued(RESEND)
      /\ m_returned.byte # NoData
      /\ ~m_returned.reset_since
      /\ Len(m_last.pre.output_buffer) < MOUSE_BUFFER_SIZE )
    => MouseSt = [m_last.pre EXCEPT !.output_buffer = @ \o <<m_returned.byte>>]

\* C9's case: two RESENDs in a row after an acknowledgement was read
C9_Witness ==
    /\ CommandIssued(RESEND)
    /\ m_returned = [byte |-> ACKNOWLEDGE_COMMAND, reset_since |-> FALSE]
    /\ Len(output_buffer) >= 2
    /\ output_buffer[Len(output_buffer)] = ACKNOWLEDGE_COMMAND
    /\ output_buffer[Len(output_buffer) - 1] = ACKNOWLEDGE_COMMAND
    /\ Len(m_last.pre.output_buffer) = Len(output_buffer) - 1

\* C10: from power-on, ENABLE_DATA_REPORTING and then a poll that delivers one
\* event at (32, 16) with no button leave 0xFA, the header 0x28 (always_one and
\* y_sign), 2 and 0xFF in the queue; and every poll while reporting is active
\* appends three bytes per event it pulls, the first with always_one set.
C10_EnableThenEventPacket ==
    (m_last.op = "poll") =>
        /\ ( /\ m_last.pre = input(MouseStateNew, ENABLE_DATA_REPORTING)
             /\ m_last.evs = << [x |-> 32, y |-> 16, button_mask |-> 0] >> )
           => output_buffer = <<ACKNOWLEDGE_COMMAND, 40, 2, 255>>
        /\ m_last.pre.active =>
             LET q == m_last.pre.output_buffer
             IN  /\ Len(output_buffer) = Len(q) + 3 * m_last.pulled
                 /\ SubSeq(output_buffer, 1, Len(q)) = q
                 /\ \A k \in 1..m_last.pulled :
                        (output_buffer[Len(q) + 3 * (k - 1) + 1] \div 8) % 2 = 1

\* C10's case: the poll after ENABLE_DATA_REPORTING from power-on pulled the event
C10_Witness ==
    /\ m_last.op = "poll"
    /\ m_last.pre = [MouseStateNew EXCEPT !.active = TRUE,
                                          !.output_buffer = <<ACKNOWLEDGE_COMMAND>>]
    /\ m_last.evs = << [x |-> 32, y |-> 16, button_mask |-> 0] >>
    /\ m_last.pulled = 1
    /\ Len(output_buffer) = 4

\* the bytes repeated output() calls return until the first None
RECURSIVE Drained(_)
Drained(st) ==
    LET r == output(st)
    IN  IF r.ret = NoData THEN <<>> ELSE <<r.ret>> \o Drained(r.st)

\* C11: a saved state restored on a device in the freshly constructed state
\* makes repeated output() calls return the bytes the saved device would return,
\* in the same order, then none.
C11_SaveRestoreKeepsOutputSequence ==
    (m_last.op = "restore" /\ m_last.pre = MouseStateNew) =>
        Drained(MouseSt) = Drained(m_saved.from)

\* C11's case: the saved device had a queued byte, reporting on and a byte read
C11_Witness ==
    /\ m_last.op = "restore"
    /\ m_last.pre = MouseStateNew
    /\ m_saved.from.active
    /\ m_saved.from.output_buffer # <<>>
    /\ Drained(MouseSt) # <<>>

\* C17: after reset() the queue is empty, no command is pending, reporting is
\* inactive, the last-output byte is 0 and the previous position is (0, 0).
C17_ResetRestoresDefaults ==
    (m_last.op = "reset") =>
        /\ output_buffer = <<>>
        /\ previous_command = NoCommand
        /\ active = FALSE
        /\ last_output_byte_read = 0
        /\ prev_x = 0
        /\ prev_y = 0

\* C17's case: reset of a device with bytes queued, reporting on, a byte read
\* and a position tracked
C17_Witness ==
    /\ m_last.op = "reset"
    /\ m_last.pre.output_buffer # <<>>
    /\ m_last.pre.active
    /\ m_last.pre.last_output_byte_read # 0
    /\ m_last.pre.prev_x # 0
    /\ output_buffer = <<>>

\* C18: a poll while reporting is inactive changes no state field, whatever
\* events it pulls.
C18_InactivePollDiscards ==
    (m_last.op = "poll" /\ ~m_last.pre.active) =>
        /\ output_buffer = m_last.pre.output_buffer
        /\ prev_x = m_last.pre.prev_x
        /\ prev_y = m_last.pre.prev_y
        /\ previous_command = m_last.pre.previous_command
        /\ last_output_byte_read = m_last.pre.last_output_byte_read
        /\ active = FALSE

\* C18's case: reporting was switched off after a position was tracked, and the
\* poll pulled an event at another position
C18_Witness ==
    /\ m_last.op = "poll"
    /\ ~m_last.pre.active
    /\ m_last.pulled >= 1
    /\ m_last.pre.prev_x = 32
    /\ m_last.evs[1].x = 8
    /\ prev_x = 32

\* poll pulled events exactly while the queue was shorter than `limit`: it
\* stopped only when the events ran out or the queue had reached limit, and it
\* pulled none once it had
PulledWhileBelow(limit) ==
    (m_last.op = "poll") =>
        LET q == Len(m_last.pre.output_buffer)
            grow == IF m_last.pre.active THEN 3 ELSE 0
            n == m_last.pulled
        IN  /\ n <= Len(m_last.evs)
            /\ n = Len(m_last.evs) \/ q + grow * n >= limit
            /\ n > 0 => q + grow * (n - 1) < limit

\* C19 as stated: poll pulls a further event exactly while the queue has at least
\* 4 bytes of headroom (MOUSE_BUFFER_SIZE - length >= 4).
C19_PullsWithFourBytesHeadroom == PulledWhileBelow(MOUSE_BUFFER_SIZE - 4 + 1)

\* C19, amended: poll pulls a further event exactly while the queue is shorter
\* than MOUSE_BUFFER_SIZE - 4 = 61 bytes, that is while it has at least 5 bytes
\* of headroom.
C19_PullsWithFiveBytesHeadroom == PulledWhileBelow(MOUSE_BUFFER_SIZE - 4)

\* C19's case: two events are ready with 58 bytes queued and reporting active;
\* the first packet brings the queue to 61 bytes and the second event is left
C19_Witness ==
    /\ m_last.op = "poll"
    /\ m_last.pre.active
    /\ Len(m_last.pre.output_buffer) = MOUSE_BUFFER_SIZE - 7
    /\ Len(m_last.evs) = 2
    /\ m_last.pulled = 1
    /\ Len(output_buffer) = MOUSE_BUFFER_SIZE - 4

\* C20: output() on a non-empty queue returns the oldest byte, removes it and
\* records it as the last-output byte, changing nothing else; on an empty queue
\* it returns none and changes nothing.
C20_OutputPopsOldest ==
    (m_last.op = "output") =>
        IF m_last.pre.output_buffer # <<>>
        THEN /\ m_last.ret = m_last.pre.output_buffer[1]
             /\ MouseSt = [m_last.pre EXCEPT !.output_buffer = Tail(@),
                                             !.last_output_byte_read = m_last.ret]
        ELSE /\ m_last.ret = NoData
             /\ MouseSt = m_last.pre

\* C20's case: the queue was read empty in queueing order and output() is
\* called once more
C20_Witness ==
    /\ m_last.op = "output"
    /\ m_last.ret = NoData
    /\ m_last.pre.output_buffer = <<>>
    /\ last_output_byte_read = ACKNOWLEDGE_COMMAND
    /\ m_returned.byte = ACKNOWLEDGE_COMMAND

\* the last operation was an input byte that arrived while a command was pending
DataByteArrived ==
    m_last.op = "input" /\ m_last.pre.previous_command # NoCommand

\* C21: an input byte that arrives while a command is pending is taken as that
\* command's data byte and never as an opcode: no command is pending afterwards,
\* the data-reporting flag, the last-output byte and the previous position are
\* unchanged, and (with room in the queue) the queue gains the one
\* acknowledgement of the pending command and no reset or id bytes.
C21_PendingByteIsData ==
    DataByteArrived =>
        /\ previous_command = NoCommand
        /\ active = m_last.pre.active
        /\ last_output_byte_read = m_last.pre.last_output_byte_read
        /\ prev_x = m_last.pre.prev_x
        /\ prev_y = m_last.pre.prev_y
        /\ Len(m_last.pre.output_buffer) < MOUSE_BUFFER_SIZE =>
               output_buffer = m_last.pre.output_buffer \o <<ACKNOWLEDGE_COMMAND>>

\* C21's case: SET_SAMPLE_RATE is pending on a device that does not report, and
\* the byte that arrives is the opcode of ENABLE_DATA_REPORTING
C21_Witness ==
    /\ DataByteArrived
    /\ m_last.pre.previous_command = SET_SAMPLE_RATE
    /\ m_last.byte = ENABLE_DATA_REPORTING
    /\ ~m_last.pre.active
    /\ ~active
    /\ previous_command = NoCommand

\* the opcodes Ps2Mouse::command has an arm for
HandledOpcodes ==
    {SET_SAMPLE_RATE, SET_RESOLUTION, ENABLE_DATA_REPORTING, DISABLE_DATA_REPORTING,
     GET_ID, RESEND, RESET}

\* C22: with no command pending and room in the queue, an input byte that is
\* none of the handled opcodes appends exactly one ACKNOWLEDGE_COMMAND and
\* changes nothing else.
C22_UnknownOpcodeAcknowledged ==
    (/\ m_last.op = "input"
     /\ m_last.pre.previous_command = NoCommand
     /\ m_last.byte \notin HandledOpcodes
     /\ Len(m_last.pre.output_buffer) < MOUSE_BUFFER_SIZE) =>
        MouseSt = [m_last.pre EXCEPT !.output_buffer = @ \o <<ACKNOWLEDGE_COMMAND>>]

\* C22's case: SET_SCALING_1_1 arrives at a reporting device whose queue is not
\* empty
C22_Witness ==
    /\ CommandIssued(SET_SCALING_1_1)
    /\ m_last.pre.active
    /\ m_last.pre.output_buffer # <<>>
    /\ output_buffer = m_last.pre.output_buffer \o <<ACKNOWLEDGE_COMMAND>>

\* C28: a fresh device restored from the save of a device holds every field of
\* that device's state.
C28_RestoreReinstatesAllState ==
    (m_last.op = "restore" /\ m_last.pre = MouseStateNew) => MouseSt = m_saved.from

\* C29: the RESET opcode, with no command pending and room for 3 bytes, appends
\* ACKNOWLEDGE_COMMAND, SELF_TEST_COMPLETE and 0 in that order and changes
\* nothing else.
C29_ResetCommandOnlyQueuesBytes ==
    (/\ CommandIssued(RESET)
     /\ Len(m_last.pre.output_buffer) + 3 <= MOUSE_BUFFER_SIZE) =>
        MouseSt = [m_last.pre EXCEPT
                      !.output_buffer = @ \o <<ACKNOWLEDGE_COMMAND, SELF_TEST_COMPLETE, 0>>]

\* C29's case: RESET arrives at a reporting device that has bytes queued and
\* has had a byte read
C29_Witness ==
    /\ CommandIssued(RESET)
    /\ m_last.pre.active
    /\ m_last.pre.output_buffer # <<>>
    /\ m_last.pre.last_output_byte_read # 0
    /\ active

\* C36: the pending command is always none, SET_SAMPLE_RATE or SET_RESOLUTION;
\* it becomes pending only when its opcode is received with nothing pending;
\* the next input byte always clears it; poll and output() never change it.
C36_PendingCommand ==
    /\ [](previous_command \in {NoCommand, SET_SAMPLE_RATE, SET_RESOLUTION})
    /\ [][ /\ (previous_command' # NoCommand /\ previous_command' # previous_command) =>
                  (/\ m_last'.op = "input"
                   /\ previous_command = NoCommand
                   /\ m_last'.byte = previous_command')
           /\ (m_last'.op = "input" /\ previous_command # NoCommand) =>
                  (previous_command' = NoCommand)
           /\ (m_last'.op \in {"poll", "output"}) => UNCHANGED previous_command ]_vars

\* C36's case: the opcode of SET_RESOLUTION arrived as the data byte of
\* SET_RESOLUTION and is not pending afterwards
C36_Witness ==
    /\ DataByteArrived
    /\ m_last.pre.previous_command = SET_RESOLUTION
    /\ m_last.byte = SET_RESOLUTION
    /\ previous_command = NoCommand

\* C37: the data-reporting flag is false at construction and after reset(),
\* true after ENABLE_DATA_REPORTING executed as a command, false after
\* DISABLE_DATA_REPORTING executed as a command, and changed by nothing else
\* (so it is true exactly when the latest of these was the enable command).
C37_ReportingFlag ==
    /\ [] /\ m_last.op \in {"new", "reset"} => ~active
          /\ CommandIssued(ENABLE_DATA_REPORTING) => active
          /\ CommandIssued(DISABLE_DATA_REPORTING) => ~active
    /\ [][ \/ m_last'.op = "reset"
           \/ /\ m_last'.op = "input"
              /\ previous_command = NoCommand
              /\ m_last'.byte \in {ENABLE_DATA_REPORTING, DISABLE_DATA_REPORTING}
           \/ UNCHANGED active ]_vars

\* C37's case: the RESET command arrives at a device that reports, and it
\* still reports
C37_Witness ==
    /\ CommandIssued(RESET)
    /\ m_last.pre.active
    /\ active

PacketTags == {"header", "dx", "dy"}

C33_PollTerminates == (poll_pc = "loop") ~> (poll_pc = "idle")

(***************************************************************************)
(* The specifications: one device at a time, the other left as built.      *)
(***************************************************************************)
\* both devices as constructed, the fw_cfg device in any configuration
Init ==
    \E layout \in Layouts, mem_layout \in MemLayouts :
        FwCfgNew(layout, mem_layout) /\ Ps2MouseNew

\* both devices as constructed, the fw_cfg device on I/O ports with one RAM range
MouseInit ==
    FwCfgNew([kind |-> "IoPort", base |-> 0], [i \in 1..1 |-> RamRange(i)]) /\ Ps2MouseNew

FwCfgSpec == Init /\ [][FwNext]_vars

FwCfgDevSpec == Init /\ [][FwDevNext]_vars

FwCfgSaveSpec == Init /\ [][FwSaveNext]_vars

MouseSpec == MouseInit /\ [][MouseNext]_vars

MouseFillSpec == MouseInit /\ [][FillNext]_vars

MousePacketSpec == MouseInit /\ [][PacketNext]_vars

\* a call of poll that has begun keeps running: its loop takes its next turn
\* or returns
MousePollLoopSpec ==
    MouseInit /\ [][PollLoopNext]_vars /\ WF_vars(PollIterate) /\ WF_vars(PollReturn)
====
